---- MODULE Spec2Model ----
(***************************************************************************)
(* A model of package envconf (src/envconf.go): the environment store      *)
(* (New, Get), the structural decoder (Decode, decode, decodeField,        *)
(* decodeLiteral, decodeSlice, indirect), the strict validator             *)
(* (DecodeStrict, hasPrefixFold) and the list splitter (splitList,         *)
(* removeEscape).                                                          *)
(*                                                                         *)
(* A Go string is a sequence of one-character strings, so that prefixes,   *)
(* case folding, trimming, splitting and parsing are computed and not      *)
(* assumed.  A Go map is a function; a `range` over a map visits its keys  *)
(* in an order the runtime chooses, so every result that depends on that   *)
(* order is a nondeterministic choice.                                     *)
(***************************************************************************)
EXTENDS Integers, Sequences, FiniteSets, TLC

VARIABLES
    environ,    \* the entry list handed to New
    env,        \* the Environment (map[string]string) New returned
    target,     \* the caller's *Target: NilPtr, or the record it points to
    pc,         \* "start" before New, "ready" after it, "done" after the call
    call,       \* the last call on env: its name, its arguments, its results
    source,     \* splitList: the argument
    results,    \* splitList: the returned slice
    spc         \* splitList: "call" before the call, "done" after it

vars == <<environ, env, target, pc, call, source, results, spc>>

-----------------------------------------------------------------------------
(* Bounds of the model. *)

\* The longest entry list handed to New.
MaxEntries == 2

\* The longest source string handed to splitList.
MaxLen == 4

-----------------------------------------------------------------------------
(* Strings. *)

\* strings.ToLower on one character of the model's alphabet.
Lower(c) ==
    CASE c = "A" -> "a"
      [] c = "B" -> "b"
      [] c = "C" -> "c"
      [] c = "K" -> "k"
      [] c = "L" -> "l"
      [] c = "N" -> "n"
      [] c = "P" -> "p"
      [] c = "Q" -> "q"
      [] c = "S" -> "s"
      [] c = "U" -> "u"
      [] c = "X" -> "x"
      [] OTHER -> c

\* strings.EqualFold: equal under case folding.
EqualFold(s, t) ==
    /\ Len(s) = Len(t)
    /\ \A i \in 1..Len(s) : Lower(s[i]) = Lower(t[i])

\* hasPrefixFold: a case-insensitive strings.HasPrefix.
hasPrefixFold(s, prefix) ==
    /\ Len(s) >= Len(prefix)
    /\ EqualFold(SubSeq(s, 1, Len(prefix)), prefix)

\* The white space strings.TrimSpace removes, within the model's alphabet.
IsSpace(c) == c \in {" ", "\t"}

RECURSIVE TrimLeft(_)
TrimLeft(s) ==
    IF s # <<>> /\ IsSpace(Head(s)) THEN TrimLeft(Tail(s)) ELSE s

RECURSIVE TrimRight(_)
TrimRight(s) ==
    IF s # <<>> /\ IsSpace(s[Len(s)])
    THEN TrimRight(SubSeq(s, 1, Len(s) - 1))
    ELSE s

\* strings.TrimSpace.
TrimSpace(s) == TrimRight(TrimLeft(s))

\* strings.Index(s, c) for a one-character c, 1-based; 0 when c is not in s.
IndexOf(s, c) ==
    IF \E i \in 1..Len(s) : s[i] = c
    THEN CHOOSE i \in 1..Len(s) : s[i] = c /\ \A j \in 1..(i - 1) : s[j] # c
    ELSE 0

-----------------------------------------------------------------------------
(* The list splitter. *)

\* removeEscape under strings.Map: every backslash is dropped.
RemoveEscapes(s) == SelectSeq(s, LAMBDA c : c # "\\")

\* The state of splitList's locals before its loop.
SplitStart ==
    [isEscaped |-> FALSE, hasEscape |-> FALSE, lastIndex |-> 0, index |-> 0,
     results |-> <<>>]

\* One iteration of splitList's loop, on the character at (0-based) st.index,
\* followed by the loop's index++.
SplitStep(src, st) ==
    LET c == src[st.index + 1]
        next == [st EXCEPT !.index = st.index + 1] IN
    IF st.isEscaped
    THEN [next EXCEPT !.isEscaped = FALSE]
    ELSE IF c = "\\"
    THEN [next EXCEPT !.isEscaped = TRUE, !.hasEscape = TRUE]
    ELSE IF c = ","
    THEN LET raw == SubSeq(src, st.lastIndex + 1, st.index)
             result == IF st.hasEscape THEN RemoveEscapes(raw) ELSE raw IN
         [next EXCEPT !.hasEscape = FALSE,
                      !.results = Append(st.results, result),
                      !.lastIndex = st.index + 1]
    ELSE next

\* splitList's loop, from state st to the end of src.
RECURSIVE SplitLoop(_, _)
SplitLoop(src, st) ==
    IF st.index < Len(src) THEN SplitLoop(src, SplitStep(src, st)) ELSE st

\* A splitList that appends the trailing segment even when it is empty.
SplitTailAlways(src, st) ==
    LET raw == SubSeq(src, st.lastIndex + 1, Len(src))
        result == IF st.hasEscape THEN RemoveEscapes(raw) ELSE raw IN
    IF st.lastIndex <= st.index
    THEN Append(st.results, result)
    ELSE st.results

\* splitList after its loop: the trailing segment.
SplitTail(src, st) ==
    LET raw == SubSeq(src, st.lastIndex + 1, Len(src))
        result == IF st.hasEscape THEN RemoveEscapes(raw) ELSE raw IN
    IF st.lastIndex < st.index
    THEN Append(st.results, result)
    ELSE st.results

\* splitList.
splitList(src) == SplitTail(src, SplitLoop(src, SplitStart))

-----------------------------------------------------------------------------
(* Errors.  Every error value is a record of the same shape. *)

NoError == [kind |-> "nil", what |-> <<>>]

\* fmt.Errorf("Non-pointer type '%s'", ...)
ErrNonPointer == [kind |-> "NonPointer", what |-> <<>>]

\* fmt.Errorf("Unsupported type %s", kind)
ErrUnsupported == [kind |-> "Unsupported", what |-> <<>>]

\* strconv.ErrSyntax and strconv.ErrRange, as strconv.ParseInt returns them.
ErrSyntax == [kind |-> "Syntax", what |-> <<>>]
ErrRange == [kind |-> "Range", what |-> <<>>]

\* fmt.Errorf("Unrecognized environment variable '%s'", key)
ErrUnrecognized(key) == [kind |-> "Unrecognized", what |-> key]

-----------------------------------------------------------------------------
(* The environment store. *)

\* The Environment with key set to value: env[key] = value.
MapSet(e, key, value) ==
    [k \in (DOMAIN e) \union {key} |-> IF k = key THEN value ELSE e[k]]

\* A New that stores an entry without "=" under the empty value.
NewEntryKeepingBare(e, entry) ==
    LET i == IndexOf(entry, "=") IN
    IF i = 0
    THEN MapSet(e, entry, <<>>)
    ELSE MapSet(e, SubSeq(entry, 1, i - 1), SubSeq(entry, i + 1, Len(entry)))

\* The body of New's loop for one entry: strings.SplitN(value, "=", 2) has two
\* parts exactly when the entry holds a "=", and splits at the first one.
NewEntry(e, entry) ==
    LET i == IndexOf(entry, "=") IN
    IF i = 0
    THEN e
    ELSE MapSet(e, SubSeq(entry, 1, i - 1), SubSeq(entry, i + 1, Len(entry)))

RECURSIVE NewFrom(_, _)
NewFrom(e, entries) ==
    IF entries = <<>>
    THEN e
    ELSE NewFrom(NewEntry(e, Head(entries)), Tail(entries))

\* New: the Environment built from the entry list.
New(entries) == NewFrom(<<>>, entries)

\* A Get that falls back to the scan's first match without trimming it.
GetUntrimmed(e, name) ==
    IF name \in DOMAIN e
    THEN {[value |-> TrimSpace(e[name]), ok |-> TRUE]}
    ELSE LET matches == {key \in DOMAIN e : EqualFold(key, name)} IN
         IF matches = {}
         THEN {[value |-> <<>>, ok |-> FALSE]}
         ELSE {[value |-> e[key], ok |-> TRUE] : key \in matches}

\* Environment.Get: every (value, ok) the call can return.  An exact match
\* wins; otherwise the range over the map returns the first key that matches
\* under case folding, and any matching key can be the first.
Get(e, name) ==
    IF name \in DOMAIN e
    THEN {[value |-> TrimSpace(e[name]), ok |-> TRUE]}
    ELSE LET matches == {key \in DOMAIN e : EqualFold(key, name)} IN
         IF matches = {}
         THEN {[value |-> <<>>, ok |-> FALSE]}
         ELSE {[value |-> TrimSpace(e[key]), ok |-> TRUE] : key \in matches}

-----------------------------------------------------------------------------
(* Types and values.  A type is a record with its reflect.Kind; a struct    *)
(* value is a record indexed by the fields' identifiers.                    *)

Int8Type == [kind |-> "int", bits |-> 8]
StringType == [kind |-> "string"]
InterfaceType == [kind |-> "interface"]
SliceOf(elem) == [kind |-> "slice", elem |-> elem]
PtrTo(elem) == [kind |-> "ptr", elem |-> elem]
StructOf(fields) == [kind |-> "struct", fields |-> fields]

\* A struct field: its identifier, its name, its `env` tag ("" when it has
\* none) and its type.
Field(id, name, tag, typ) == [id |-> id, name |-> name, tag |-> tag, typ |-> typ]

\* type Nested struct { C int8 }
NestedType == StructOf(<<Field("C", <<"C">>, <<>>, Int8Type)>>)

\* type Sub struct { B int8 }
SubType == StructOf(<<Field("B", <<"B">>, <<>>, Int8Type)>>)

\* The record decoded into.  Its fields are exported, so that reflect can set
\* every one of them.
\* type Target struct {
\*     A int8
\*     K string `env:"-"`
\*     L []int8
\*     U interface{}
\*     N *Nested
\*     S Sub `env:"s"`
\* }
TargetType ==
    StructOf(<<Field("A", <<"A">>, <<>>, Int8Type),
               Field("K", <<"K">>, <<"-">>, StringType),
               Field("L", <<"L">>, <<>>, SliceOf(Int8Type)),
               Field("U", <<"U">>, <<>>, InterfaceType),
               Field("N", <<"N">>, <<>>, PtrTo(NestedType)),
               Field("S", <<"S">>, <<"s">>, SubType)>>)

\* A nil pointer and a nil interface value.
NilPtr == [isNil |-> TRUE]
NilInterface == [isNil |-> TRUE]

FieldIds(typ) == {typ.fields[i].id : i \in 1..Len(typ.fields)}
FieldOf(typ, id) ==
    typ.fields[CHOOSE i \in 1..Len(typ.fields) : typ.fields[i].id = id]

\* reflect.New(typ).Elem(): the zero value of a type.
RECURSIVE Zero(_)
Zero(typ) ==
    CASE typ.kind = "int" -> 0
      [] typ.kind = "string" -> <<>>
      [] typ.kind = "slice" -> <<>>
      [] typ.kind = "interface" -> NilInterface
      [] typ.kind = "ptr" -> NilPtr
      [] typ.kind = "struct" ->
            [id \in FieldIds(typ) |-> Zero(FieldOf(typ, id).typ)]

\* indirect, on a pointer whose pointee is `pointee` (NilPtr for a nil
\* pointer): the value pointed to, allocated as a zero value when nil.
indirect(pointee, typ) ==
    IF pointee = NilPtr THEN Zero(typ) ELSE pointee

-----------------------------------------------------------------------------
(* The literal converter. *)

\* The decimal digits of the model's alphabet (it has no "0", so a base
\* prefix or a leading-zero octal form cannot be written).
DigitValue(c) ==
    CASE c = "1" -> 1 [] c = "2" -> 2 [] c = "3" -> 3
      [] c = "4" -> 4 [] c = "5" -> 5 [] c = "6" -> 6
      [] c = "7" -> 7 [] c = "8" -> 8 [] c = "9" -> 9
      [] OTHER -> -1

RECURSIVE Decimal(_)
Decimal(s) ==
    IF s = <<>>
    THEN 0
    ELSE 10 * Decimal(SubSeq(s, 1, Len(s) - 1)) + DigitValue(s[Len(s)])

RECURSIVE Pow2(_)
Pow2(n) == IF n = 0 THEN 1 ELSE 2 * Pow2(n - 1)

\* strconv.ParseInt(s, 0, bits) on a string of the model's alphabet: a syntax
\* error unless s is a non-empty run of digits, a range error when the number
\* does not fit bits bits.
ParseInt(s, bits) ==
    IF s = <<>> \/ \E i \in 1..Len(s) : DigitValue(s[i]) < 0
    THEN [result |-> 0, err |-> ErrSyntax]
    ELSE IF Decimal(s) > Pow2(bits - 1) - 1
    THEN [result |-> Pow2(bits - 1) - 1, err |-> ErrRange]
    ELSE [result |-> Decimal(s), err |-> NoError]

RECURSIVE decodeLiteral(_, _, _)
RECURSIVE DecodeElements(_, _, _, _)

\* decodeSlice's loop from the i-th piece on: the slice as it stands when the
\* loop returns, and the error it returns.
DecodeElements(sources, i, value, elem) ==
    IF i > Len(sources)
    THEN [value |-> value, err |-> NoError]
    ELSE LET r == decodeLiteral(sources[i], Zero(elem), elem) IN
         IF r.err # NoError
         THEN [value |-> value, err |-> r.err]
         ELSE DecodeElements(sources, i + 1, Append(value, r.value), elem)

\* decodeSlice: value.SetLen(0), then one append per piece of the source.
decodeSlice(src, value, typ) ==
    DecodeElements(splitList(src), 1, <<>>, typ.elem)

\* decodeLiteral: the value as the call leaves it, and the error it returns.
decodeLiteral(src, value, typ) ==
    CASE typ.kind = "int" ->
            LET r == ParseInt(src, typ.bits) IN
            IF r.err # NoError
            THEN [value |-> value, err |-> r.err]
            ELSE [value |-> r.result, err |-> NoError]
      [] typ.kind = "slice" -> decodeSlice(src, value, typ)
      [] typ.kind = "string" -> [value |-> src, err |-> NoError]
      [] OTHER -> [value |-> value, err |-> ErrUnsupported]

-----------------------------------------------------------------------------
(* The structural decoder.  A decoding state is the value being decoded     *)
(* into, the consumed names (fields) and the error; `track` says whether     *)
(* fields is non-nil.  Each operator yields the set of states the call can   *)
(* end in, one for every result Get can return.                              *)

DecodeState(value, fields, err) ==
    [value |-> value, fields |-> fields, err |-> err]

\* A leaf decoder that returns decodeLiteral's error to its caller.
DecodeLeafPropagating(e, name, value, typ, fields, track) ==
    {IF ~g.ok
     THEN DecodeState(value, fields, NoError)
     ELSE LET r == decodeLiteral(g.value, value, typ) IN
          IF r.err # NoError
          THEN DecodeState(r.value, fields, r.err)
          ELSE DecodeState(r.value,
                           IF track THEN Append(fields, name) ELSE fields,
                           NoError)
     : g \in Get(e, name)}

\* decodeField on a type that is not a struct.
DecodeLeaf(e, name, value, typ, fields, track) ==
    {IF ~g.ok
     THEN DecodeState(value, fields, NoError)
     ELSE LET r == decodeLiteral(g.value, value, typ) IN
          IF r.err # NoError
          THEN DecodeState(r.value, fields, NoError)
          ELSE DecodeState(r.value,
                           IF track THEN Append(fields, name) ELSE fields,
                           NoError)
     : g \in Get(e, name)}

\* A decoder that skips no field.
IsSkippedNever(field) == FALSE

\* The field's tag is "-".
IsSkipped(field) == field.tag = <<"-">>

\* The field's name segment: its tag, or its name when it has no tag.
FieldTag(field) == IF Len(field.tag) = 0 THEN field.name ELSE field.tag

RECURSIVE decodeField(_, _, _, _, _, _, _)
RECURSIVE DecodeStruct(_, _, _, _, _, _, _)

\* decodeField's loop over the fields of a struct type, from the i-th on, in
\* decoding state st.
DecodeStruct(e, name, sep, typ, i, st, track) ==
    IF i > Len(typ.fields)
    THEN {st}
    ELSE LET field == typ.fields[i] IN
         IF IsSkipped(field)
         THEN DecodeStruct(e, name, sep, typ, i + 1, st, track)
         ELSE UNION {
                LET after == DecodeState(
                        [st.value EXCEPT ![field.id] = r.value], r.fields, r.err) IN
                IF r.err # NoError
                THEN {after}
                ELSE DecodeStruct(e, name, sep, typ, i + 1, after, track)
                : r \in decodeField(e, name \o sep \o FieldTag(field), sep,
                                    st.value[field.id], field.typ, st.fields,
                                    track)}

\* decodeField.
decodeField(e, name, sep, value, typ, fields, track) ==
    IF typ.kind # "struct"
    THEN DecodeLeaf(e, name, value, typ, fields, track)
    ELSE DecodeStruct(e, name, sep, typ, 1,
                      DecodeState(value, fields, NoError), track)

\* How the caller passes its pointer p to a Target to decode: the Target by
\* value, p itself, or &p.
Args == {"value", "ptr", "ptrptr"}

\* decode: the states the call can end in, value being what p points to
\* afterwards.  It rejects a value that is no pointer and a nil pointer; for
\* &p, indirect allocates a zero Target when p is nil.
decode(e, prefix, sep, arg, pointee, track) ==
    IF arg = "value" \/ (arg = "ptr" /\ pointee = NilPtr)
    THEN {DecodeState(pointee, <<>>, ErrNonPointer)}
    ELSE decodeField(e, prefix, sep, indirect(pointee, TargetType), TargetType,
                     <<>>, track)

\* Environment.Decode.
Decode(e, prefix, sep, arg, pointee) ==
    decode(e, prefix, sep, arg, pointee, FALSE)

-----------------------------------------------------------------------------
(* The strict validator. *)

\* The keys at which DecodeStrict's loop over env returns its error.
Unrecognized(e, prefix, fields, ignoreEnv) ==
    {key \in DOMAIN e :
        /\ hasPrefixFold(key, prefix)
        /\ key \notin ignoreEnv
        /\ ~\E i \in 1..Len(fields) : EqualFold(key, fields[i])
        /\ ~\E field \in ignoreEnv : EqualFold(key, field)}

\* A validator that compares the keys exactly.
StrictCheckExact(e, prefix, st, ignoreEnv) ==
    LET bad == {key \in DOMAIN e :
                    /\ hasPrefixFold(key, prefix)
                    /\ key \notin ignoreEnv
                    /\ ~\E i \in 1..Len(st.fields) : key = st.fields[i]} IN
    IF st.err # NoError \/ bad = {}
    THEN {st}
    ELSE {[st EXCEPT !.err = ErrUnrecognized(key)] : key \in bad}

\* DecodeStrict after its decode pass ended in state st: decode's error if
\* it has one, else an error naming the key the loop meets first among the
\* unrecognized ones, else nil.
StrictCheck(e, prefix, st, ignoreEnv) ==
    IF st.err # NoError \/ Unrecognized(e, prefix, st.fields, ignoreEnv) = {}
    THEN {st}
    ELSE {[st EXCEPT !.err = ErrUnrecognized(key)]
            : key \in Unrecognized(e, prefix, st.fields, ignoreEnv)}

\* Environment.DecodeStrict.
DecodeStrict(e, prefix, sep, arg, pointee, ignoreEnv) ==
    UNION {StrictCheck(e, prefix, st, ignoreEnv)
            : st \in decode(e, prefix, sep, arg, pointee, TRUE)}

-----------------------------------------------------------------------------
(* The inputs of the model. *)

\* The qualified names of Target's fields under the prefix "p" and the
\* separator "_", other keys, and values.
kA == <<"p", "_", "A">>
kAUpper == <<"P", "_", "A">>
kK == <<"p", "_", "K">>
kDash == <<"p", "_", "-">>
kL == <<"p", "_", "L">>
kU == <<"p", "_", "U">>
kN == <<"p", "_", "N">>
kNC == <<"p", "_", "N", "_", "C">>
kSB == <<"p", "_", "s", "_", "B">>
kX == <<"p", "_", "X">>
kXUpper == <<"P", "_", "X">>
kOther == <<"q", "_", "A">>

Entry(key, value) == key \o <<"=">> \o value

\* The entries an entry list is drawn from: "KEY=VALUE", "KEY=" and "KEY".
Entries ==
    {Entry(kA, <<"1">>), Entry(kA, <<" ", "2">>), Entry(kA, <<"x">>),
     Entry(kA, <<>>), Entry(kA, <<"9", "9", "9">>), kA,
     Entry(kAUpper, <<"2">>),
     Entry(kK, <<"1">>),
     Entry(kDash, <<"1">>),
     Entry(kL, <<"1", ",", "2">>), Entry(kL, <<"1", ",", "x">>),
     Entry(kU, <<"1">>),
     Entry(kN, <<"1">>),
     Entry(kNC, <<"1">>),
     Entry(kSB, <<"2">>),
     Entry(kX, <<"=">>), kX,
     Entry(kOther, <<"1">>)}

SeqsUpTo(S, n) == UNION {[1..k -> S] : k \in 0..n}

\* The names Get is called with.
Names == {kA, kAUpper, <<"P", "_", "a">>, kK, kL, kX, kXUpper, kOther}

\* The prefixes and the separator Decode and DecodeStrict are called with.
Prefixes == {<<"p">>, <<"P">>}
Sep == <<"_">>

\* The ignoreEnv maps DecodeStrict is called with, as their key sets.
IgnoreSets == SUBSET {kK, kXUpper}

\* The characters a splitList source is drawn from.
SplitChars == {"a", ",", "\\"}

-----------------------------------------------------------------------------
(* The state machine. *)

\* What the caller's pointer p points to before the call: nothing, a zero
\* Target, or a Target an earlier decode has filled.
Filled ==
    [A |-> 7, K |-> <<"k">>, L |-> <<7, 8>>, U |-> NilInterface,
     N |-> [C |-> 7], S |-> [B |-> 7]]

Targets == {NilPtr, Zero(TargetType), Filled}

\* A call: its name, its arguments (`before` is what p pointed to when the
\* call was made) and its results.
Call(op, prefix, arg, before, ignoreEnv, name, value, ok, fields, err) ==
    [op |-> op, prefix |-> prefix, arg |-> arg, before |-> before,
     ignoreEnv |-> ignoreEnv, name |-> name, value |-> value, ok |-> ok,
     fields |-> fields, err |-> err]

NoCall == Call("none", <<>>, "", NilPtr, {}, <<>>, <<>>, FALSE, <<>>, NoError)

Init ==
    /\ environ \in SeqsUpTo(Entries, MaxEntries)
    /\ env = <<>>
    /\ target \in Targets
    /\ pc = "start"
    /\ call = NoCall
    /\ source = <<>>
    /\ results = <<>>
    /\ spc = "idle"

\* env := New(environ)
DoNew ==
    /\ pc = "start"
    /\ env' = New(environ)
    /\ pc' = "ready"
    /\ call' = Call("New", <<>>, "", NilPtr, {}, <<>>, <<>>, FALSE, <<>>, NoError)
    /\ UNCHANGED <<environ, target, source, results, spc>>

\* value, ok := env.Get(name)
DoGet ==
    /\ pc = "ready"
    /\ \E name \in Names : \E g \in Get(env, name) :
        call' = Call("Get", <<>>, "", NilPtr, {}, name, g.value, g.ok, <<>>, NoError)
    /\ pc' = "done"
    /\ UNCHANGED <<environ, env, target, source, results, spc>>

\* err := env.Decode(prefix, sep, v), v being the Target, p or &p
DoDecode ==
    /\ pc = "ready"
    /\ \E prefix \in Prefixes : \E arg \in Args :
       \E st \in Decode(env, prefix, Sep, arg, target) :
        /\ target' = st.value
        /\ call' = Call("Decode", prefix, arg, target, {}, <<>>, <<>>, FALSE,
                        st.fields, st.err)
    /\ pc' = "done"
    /\ UNCHANGED <<environ, env, source, results, spc>>

\* err := env.DecodeStrict(prefix, sep, v, ignoreEnv)
DoDecodeStrict ==
    /\ pc = "ready"
    /\ \E prefix \in Prefixes : \E arg \in Args : \E ignoreEnv \in IgnoreSets :
       \E st \in DecodeStrict(env, prefix, Sep, arg, target, ignoreEnv) :
        /\ target' = st.value
        /\ call' = Call("DecodeStrict", prefix, arg, target, ignoreEnv, <<>>,
                        <<>>, FALSE, st.fields, st.err)
    /\ pc' = "done"
    /\ UNCHANGED <<environ, env, source, results, spc>>

Next == DoNew \/ DoGet \/ DoDecode \/ DoDecodeStrict

Spec == Init /\ [][Next]_vars

\* The list splitter, on every source of at most MaxLen characters.
SplitInit ==
    /\ source \in SeqsUpTo(SplitChars, MaxLen)
    /\ results = <<>>
    /\ spc = "call"
    /\ environ = <<>>
    /\ env = <<>>
    /\ target = NilPtr
    /\ pc = "idle"
    /\ call = NoCall

\* results := splitList(source)
DoSplit ==
    /\ spc = "call"
    /\ results' = splitList(source)
    /\ spc' = "done"
    /\ UNCHANGED <<environ, env, target, pc, call, source>>

SplitNext == DoSplit

SplitSpec == SplitInit /\ [][SplitNext]_vars

-----------------------------------------------------------------------------
(* What the properties below speak of. *)

\* A call of the given name has returned.
Returned(op) == pc = "done" /\ call.op = op

\* The call's decode pass ran: v was a non-nil pointer.
PassRan == call.arg = "ptrptr" \/ (call.arg = "ptr" /\ call.before # NilPtr)

\* The Target the decode pass started from.
Before == IF call.before = NilPtr THEN Zero(TargetType) ELSE call.before

\* The qualified name of a field under the call's prefix, from its segments.
QName(segments) == call.prefix \o Sep \o segments

\* The character at position i of src is escaped: an escape character that is
\* not itself escaped stands right before it.
RECURSIVE IsEscapedAt(_, _)
IsEscapedAt(src, i) ==
    /\ i > 1
    /\ src[i - 1] = "\\"
    /\ ~IsEscapedAt(src, i - 1)

\* The positions of the unescaped delimiters of src.
UnescapedDelimiters(src) ==
    {i \in 1..Len(src) : src[i] = "," /\ ~IsEscapedAt(src, i)}

-----------------------------------------------------------------------------
(* The list splitter (C10). *)

\* C10, as stated: splitList yields, for a non-empty source, exactly one
\* segment more than the source has unescaped delimiters (so that a source
\* ending in an unescaped delimiter ends with an empty segment), no segment
\* holds the escape character, and the empty source yields no segment.
C10_OneMoreSegmentThanDelimiters ==
    spc = "done" =>
        /\ source # <<>> =>
            Len(results) = Cardinality(UnescapedDelimiters(source)) + 1
        /\ \A i \in 1..Len(results) : \A j \in 1..Len(results[i]) :
                results[i][j] # "\\"
        /\ source = <<>> => results = <<>>

\* C10, amended: the trailing segment is appended only when it is not empty.
\* splitList yields one segment per unescaped delimiter, and one more exactly
\* when the source is not empty and does not end in an unescaped delimiter;
\* no segment holds the escape character; the empty source yields no
\* segment.
C10_TrailingSegmentOnlyIfNonEmpty ==
    spc = "done" =>
        /\ Len(results) = Cardinality(UnescapedDelimiters(source))
                + (IF source # <<>> /\ Len(source) \notin UnescapedDelimiters(source)
                   THEN 1 ELSE 0)
        /\ \A i \in 1..Len(results) : \A j \in 1..Len(results[i]) :
                results[i][j] # "\\"
        /\ source = <<>> => results = <<>>

\* splitList has returned on a source that ends in an unescaped delimiter
\* after an escaped one: "a\,a," yields the single segment "a,a".
C10_Witness ==
    /\ spc = "done"
    /\ source = <<"a", "\\", ",", ",">>
    /\ results = << <<"a", ",">> >>

-----------------------------------------------------------------------------
(* The strict validator (C1). *)

\* The store keys under the call's prefix that equal, under case folding,
\* neither a name the decode pass consumed nor a member of the ignore set.
UnconsumedKeys ==
    {key \in DOMAIN env :
        /\ Len(key) >= Len(call.prefix)
        /\ EqualFold(SubSeq(key, 1, Len(call.prefix)), call.prefix)
        /\ \A i \in 1..Len(call.fields) : ~EqualFold(key, call.fields[i])
        /\ \A field \in call.ignoreEnv : ~EqualFold(key, field)}

\* C1: after its decode pass, DecodeStrict returns an "unrecognized
\* environment variable" error if and only if the store holds a key under the
\* prefix that is neither consumed nor ignored (all under case folding); the
\* error names such a key, and without such a key there is no error.
C1_StrictFailsIffUnconsumedKey ==
    (Returned("DecodeStrict") /\ PassRan) =>
        /\ call.err.kind = "Unrecognized" <=> UnconsumedKeys # {}
        /\ call.err.kind = "Unrecognized" => call.err.what \in UnconsumedKeys
        /\ UnconsumedKeys = {} => call.err = NoError

\* DecodeStrict("P", "_", &t, {"P_X"}) on a store holding p_A, which the pass
\* consumed under the name P_A, and p_K, which it reports.
C1_Witness ==
    /\ Returned("DecodeStrict") /\ PassRan
    /\ call.prefix = <<"P">>
    /\ call.fields = <<kAUpper>>
    /\ kXUpper \in call.ignoreEnv
    /\ DOMAIN env = {kA, kK}
    /\ call.err = ErrUnrecognized(kK)

-----------------------------------------------------------------------------
(* The environment store (C6, C8). *)

\* The entry is "KEY=..." for a KEY equal to name (a name holds no "=").
HasKey(entry, name) ==
    /\ Len(entry) > Len(name)
    /\ SubSeq(entry, 1, Len(name)) = name
    /\ entry[Len(name) + 1] = "="

\* The entry is "KEY=..." for a KEY equal to name under case folding.
HasKeyFold(entry, name) ==
    /\ Len(entry) > Len(name)
    /\ EqualFold(SubSeq(entry, 1, Len(name)), name)
    /\ entry[Len(name) + 1] = "="

\* C6, as stated: for a key K of the store and a name that differs from K
\* only in letter case, Get(name) reports found and returns the value Get(K)
\* returns, also when several store keys differ only in case.
C6_CaseVariantsGetSameValue ==
    Returned("Get") =>
        \A K \in DOMAIN env :
            EqualFold(K, call.name) =>
                Get(env, K) = {[value |-> call.value, ok |-> TRUE]}

\* C6, amended: Get(name) reports found for every name that differs from a
\* store key K only in letter case, and returns the value Get(K) returns when
\* K is the only store key that differs from name only in case.
C6_CaseVariantsGetSameValueIfUnique ==
    Returned("Get") =>
        \A K \in DOMAIN env :
            EqualFold(K, call.name) =>
                /\ call.ok
                /\ {K2 \in DOMAIN env : EqualFold(K2, call.name)} = {K} =>
                        Get(env, K) = {[value |-> call.value, ok |-> TRUE]}

\* Get("P_A") on a store whose only key is p_A, with the value " 2": found,
\* by the case-insensitive scan, and trimmed as Get("p_A") is.
C6_Witness ==
    /\ Returned("Get")
    /\ call.name = kAUpper
    /\ DOMAIN env = {kA}
    /\ env[kA] = <<" ", "2">>
    /\ call.ok
    /\ call.value = <<"2">>

\* C8, as stated: "KEY=" and "KEY" are indistinguishable in the store: from
\* a list holding nothing else, Get(KEY) reports KEY absent, and the store
\* holds no key at all.
C8_EmptyAndBareBothAbsent ==
    /\ (Returned("Get") /\ environ # <<>>
            /\ \A i \in 1..Len(environ) :
                    environ[i] \in {call.name, Entry(call.name, <<>>)})
        => (~call.ok /\ call.value = <<>>)
    /\ (pc # "start"
            /\ \A i \in 1..Len(environ) :
                    IndexOf(environ[i], "=") \in {0, Len(environ[i])})
        => DOMAIN env = {}

\* C8, amended: an entry without "=" never enters the store, an entry "KEY="
\* does.  Every store key, and so every key DecodeStrict reports, comes from
\* an entry with "="; Get(name) reports absent when no entry with "=" has a
\* key equal to name under case folding.  A last entry "KEY=" for KEY leaves
\* KEY in the store with the empty value, and Get(KEY) then reports found
\* with the empty value.
C8_BareDroppedEmptyStored ==
    /\ pc # "start" =>
        /\ \A key \in DOMAIN env :
                \E i \in 1..Len(environ) : HasKey(environ[i], key)
        /\ \A i \in 1..Len(environ) :
                LET n == IndexOf(environ[i], "=")
                    key == SubSeq(environ[i], 1, n - 1) IN
                (/\ n > 0
                 /\ n = Len(environ[i])
                 /\ \A j \in (i + 1)..Len(environ) : ~HasKey(environ[j], key))
                => (key \in DOMAIN env /\ env[key] = <<>>)
    /\ (Returned("Get")
            /\ \A i \in 1..Len(environ) : ~HasKeyFold(environ[i], call.name))
        => (~call.ok /\ call.value = <<>>)
    /\ (Returned("Get")
            /\ \E i \in 1..Len(environ) :
                /\ environ[i] = Entry(call.name, <<>>)
                /\ \A j \in (i + 1)..Len(environ) :
                        ~HasKey(environ[j], call.name))
        => (call.ok /\ call.value = <<>>)
    /\ (Returned("DecodeStrict") /\ call.err.kind = "Unrecognized")
        => \E i \in 1..Len(environ) : HasKey(environ[i], call.err.what)

\* Get("p_A") on the store built from ["p_X", "p_A="]: the bare p_X is not
\* in the store, p_A is, and is found with the empty value.
C8_Witness ==
    /\ Returned("Get")
    /\ call.name = kA
    /\ environ = <<kX, Entry(kA, <<>>)>>
    /\ DOMAIN env = {kA}
    /\ call.ok
    /\ call.value = <<>>

-----------------------------------------------------------------------------
(* The structural decoder (C2, C3, C5, C9). *)

\* The fields of Target that decodeField decodes as leaves of a supported
\* kind: A, L and, through the struct S, S.B.
LeafIds == {"A", "L", "S.B"}

\* The scalar ones.
ScalarLeafIds == {"A", "S.B"}

LeafName(id) ==
    CASE id = "A" -> QName(<<"A">>)
      [] id = "L" -> QName(<<"L">>)
      [] id = "S.B" -> QName(<<"s", "_", "B">>)

LeafType(id) ==
    CASE id = "A" -> Int8Type
      [] id = "L" -> SliceOf(Int8Type)
      [] id = "S.B" -> Int8Type

LeafValue(t, id) ==
    CASE id = "A" -> t.A
      [] id = "L" -> t.L
      [] id = "S.B" -> t.S.B

\* The conversion of a found value into a fresh value of the type.
Conversion(src, typ) == decodeLiteral(src, Zero(typ), typ)

\* A value found under the name does not convert into the type.
Malformed(name, typ) ==
    \E g \in Get(env, name) : g.ok /\ Conversion(g.value, typ).err # NoError

\* The name is found, and whatever is found converts into the type.
WellFormed(name, typ) ==
    \A g \in Get(env, name) : g.ok /\ Conversion(g.value, typ).err = NoError

\* The complete converted values of what is found under the name.
Converted(name, typ) ==
    {Conversion(g.value, typ).value :
        g \in {h \in Get(env, name) :
                    h.ok /\ Conversion(h.value, typ).err = NoError}}

\* C2, as stated: Target has the non-skipped field U of the unsupported type
\* interface{}, so Decode into it returns an error, whether or not the store
\* holds a key for U.
C2_UnsupportedLeafFails ==
    Returned("Decode") => call.err # NoError

C5_NilPointerFieldAllocated ==
    (Returned("Decode") /\ PassRan /\ Before.N = NilPtr
        /\ WellFormed(QName(<<"N", "_", "C">>), Int8Type))
    =>  /\ target.N # NilPtr
        /\ target.N.C \in Converted(QName(<<"N", "_", "C">>), Int8Type)

\* C9, as stated: after Decode every leaf holds the value it had before the
\* call or the complete converted value of its key.
C9_NoPartialWrites ==
    (Returned("Decode") /\ PassRan) =>
        \A id \in LeafIds :
            \/ LeafValue(target, id) = LeafValue(Before, id)
            \/ LeafValue(target, id) \in Converted(LeafName(id), LeafType(id))

-----------------------------------------------------------------------------
(* Strict mode and the skipped field (C4, C7). *)

\* The qualified name of the skipped field K.
SkipName == QName(<<"K">>)

\* The decode pass left K alone and did not consume its name.
SkipFieldUntouched ==
    /\ target.K = Before.K
    /\ \A i \in 1..Len(call.fields) : ~EqualFold(call.fields[i], SkipName)

\* C4, as stated: the skipped field K is neither looked up nor written, and
\* DecodeStrict with an empty ignore set does not report the key of K.
C4_SkipFieldNeverReported ==
    (pc = "done" /\ call.op \in {"Decode", "DecodeStrict"} /\ PassRan) =>
        /\ SkipFieldUntouched
        /\ (call.op = "DecodeStrict" /\ call.ignoreEnv = {}) =>
                ~(call.err.kind = "Unrecognized"
                    /\ EqualFold(call.err.what, SkipName))

\* C4, amended: the skipped field K is neither looked up nor written; in
\* strict mode a store key that corresponds only to K is unrecognized, and
\* DecodeStrict fails unless the ignore set holds that key (under case
\* folding).
C4_SkipFieldReportedUnlessIgnored ==
    (pc = "done" /\ call.op \in {"Decode", "DecodeStrict"} /\ PassRan) =>
        /\ SkipFieldUntouched
        /\ (/\ call.op = "DecodeStrict"
            /\ \E key \in DOMAIN env :
                /\ EqualFold(key, SkipName)
                /\ \A field \in call.ignoreEnv : ~EqualFold(key, field))
           => call.err.kind = "Unrecognized"

\* DecodeStrict("p", "_", &t, nil) on a store holding p_A and p_K: A is
\* consumed, K keeps its value, and p_K is reported.
C4_Witness ==
    /\ Returned("DecodeStrict") /\ PassRan
    /\ call.ignoreEnv = {}
    /\ call.before = Filled
    /\ DOMAIN env = {kA, kK}
    /\ call.fields = <<kA>>
    /\ target.K = <<"k">>
    /\ call.err = ErrUnrecognized(kK)

\* C7, as stated, for the leaves A, L and S.B: when every store key under
\* the prefix equals, under case folding, the qualified name of one of them
\* or a member of the ignore set, DecodeStrict returns no error, whatever
\* the values are.
C7_StrictIgnoresMalformedValues ==
    (Returned("DecodeStrict") /\ PassRan
        /\ \A key \in DOMAIN env :
                hasPrefixFold(key, call.prefix) =>
                    \/ \E id \in LeafIds : EqualFold(key, LeafName(id))
                    \/ \E field \in call.ignoreEnv : EqualFold(key, field))
    => call.err = NoError

====
